---- MODULE Spec2Model ----
(***************************************************************************)
(* image2qtree (src/src/vw/tools/image2qtree.h): Options::validate,        *)
(* do_normal_mosaic and do_mosaic.  Pixel data is left out; the model      *)
(* keeps the bounding boxes, the composite's insertions, the quadtree's    *)
(* configuration calls and the position in the run.                        *)
(*                                                                         *)
(* Two specifications:                                                     *)
(*   Spec       a whole run: validate, then do_mosaic / do_normal_mosaic   *)
(*   SpecAlign  the KML alignment block of do_mosaic applied to every      *)
(*              cropped bbox of the canvas, and applied a second time      *)
(***************************************************************************)
EXTENDS Integers, Sequences, FiniteSets

VARIABLES
  pc,               \* position in the run
  err,              \* the exception that ended the run, or "none"
  help,             \* opt.help
  input_count,      \* opt.input_files.size()
  mode,             \* opt.mode
  proj_none,        \* opt.proj.type == Projection::NONE
  aspect_ratio,     \* opt.aspect_ratio
  scenario,         \* TRUE: the two half-globe inputs of the KML scenario
  total_resolution, \* do_mosaic local
  xresolution,      \* do_mosaic local
  yresolution,      \* do_mosaic local
  i,                \* loop index over opt.input_files
  composite,        \* mosaic::ImageComposite: [empty, bbox]
  last,             \* the image the loop body just handled: [x0, x1, at]
  steps,            \* what the run has executed so far (set of step names)
  bbox,             \* KML block local: the cropped bbox before alignment
  dim,              \* KML block local
  total_bbox,       \* do_mosaic local
  realigned,        \* SpecAlign: the alignment block applied to total_bbox
  ll_bbox,          \* the longitude/latitude bbox stamped on the config
  quadtree          \* mosaic::QuadTreeGenerator: values in force and calls

vars == <<pc, err, help, input_count, mode, proj_none, aspect_ratio, scenario,
          total_resolution, xresolution, yresolution, i, composite, last,
          steps, bbox, dim, total_bbox, dim, realigned, ll_bbox, quadtree>>

-----------------------------------------------------------------------------
(* Bounds *)

\* Spec: total_resolution ranges over 1..MaxRes
MaxRes == 2
\* Spec: aspect_ratio ranges over 1..MaxAspect
MaxAspect == 2
\* Spec: at most MaxImages input files
MaxImages == 2
\* Spec: placement bboxes reach Margin columns outside [0, total_resolution]
Margin == 1
\* SpecAlign: total_resolution ranges over 2^0 .. 2^AlignMaxExp
AlignMaxExp == 3
\* SpecAlign: aspect_ratio ranges over 1..AlignMaxAspect
AlignMaxAspect == 3
\* SpecAlign: placement bboxes reach AlignMargin pixels outside the canvas
AlignMargin == 1

-----------------------------------------------------------------------------
(* Integer helpers *)

Max(a, b) == IF a >= b THEN a ELSE b

Min(a, b) == IF a <= b THEN a ELSE b

\* C++ int division: the quotient is truncated towards zero
CDiv(a, b) == IF a >= 0 THEN a \div b ELSE -((-a) \div b)

RECURSIVE Pow2(_)
Pow2(k) == IF k <= 0 THEN 1 ELSE 2 * Pow2(k - 1)

\* (int)(log((double)m)/log(2.)) for m >= 1
RECURSIVE FloorLog2(_)
FloorLog2(m) == IF m <= 1 THEN 0 ELSE 1 + FloorLog2(m \div 2)

RECURSIVE IsPow2(_)
IsPow2(m) == IF m <= 1 THEN m = 1 ELSE (m % 2 = 0) /\ IsPow2(m \div 2)

-----------------------------------------------------------------------------
(* vw::BBox2i *)

\* BBox2i(x, y, width, height)
BBox2i(x, y, w, h) == [minx |-> x, miny |-> y, maxx |-> x + w, maxy |-> y + h]

Width(b) == b.maxx - b.minx

Height(b) == b.maxy - b.miny

\* a.contains(b)
Contains(a, b) ==
  /\ b.minx >= a.minx
  /\ b.miny >= a.miny
  /\ b.maxx <= a.maxx
  /\ b.maxy <= a.maxy

\* a.crop(c)
Crop(a, c) == [minx |-> Max(a.minx, c.minx), miny |-> Max(a.miny, c.miny),
               maxx |-> Min(a.maxx, c.maxx), maxy |-> Min(a.maxy, c.maxy)]

\* a.grow(b)
Grow(a, b) == [minx |-> Min(a.minx, b.minx), miny |-> Min(a.miny, b.miny),
               maxx |-> Max(a.maxx, b.maxx), maxy |-> Max(a.maxy, b.maxy)]

\* a default-constructed (empty) bbox
EmptyBBox == [minx |-> 0, miny |-> 0, maxx |-> 0, maxy |-> 0]

-----------------------------------------------------------------------------
(* The KML alignment block of do_mosaic *)

\* mutant of RawDim: 1 << (int)ceil(log2(max)), the smallest power of two >= max
RawDimCeil(b) ==
  LET m == Max(Width(b), Height(b))
  IN  IF IsPow2(m) THEN m ELSE 2 * Pow2(FloorLog2(m))

\* 2 << (int)(log(max(width, height))/log(2.))
RawDim(b) == 2 * Pow2(FloorLog2(Max(Width(b), Height(b))))

\* mutant of AlignDim: the cap at total_resolution left out
AlignDimNoCap(b, total) == RawDim(b)

\* dim after "if( dim > total_resolution ) dim = total_resolution"
AlignDim(b, total) == IF RawDim(b) > total THEN total ELSE RawDim(b)

\* BBox2i( (min.x/dim)*dim, (min.y/dim)*dim, dim, dim ), d the value of dim
Snapped(b, d) == BBox2i(CDiv(b.minx, d) * d, CDiv(b.miny, d) * d, d, d)

\* the x half of the extension
ExtendX(t, d, xres) ==
  IF t.maxx = xres THEN [t EXCEPT !.minx = t.minx - d]
                   ELSE [t EXCEPT !.maxx = t.maxx + d]

\* the y half of the extension
ExtendY(t, d, yres) ==
  IF t.maxy = yres THEN [t EXCEPT !.miny = t.miny - d]
                   ELSE [t EXCEPT !.maxy = t.maxy + d]

\* mutant of Extend: the y half left out
ExtendXOnly(t, d, xres, yres) == ExtendX(t, d, xres)

\* the body of "if( ! total_bbox.contains( bbox ) )"
Extend(t, d, xres, yres) == ExtendY(ExtendX(t, d, xres), d, yres)

\* the whole block: total_bbox as it leaves the if(opt.mode == Mode::KML)
KMLAlign(b, total, xres, yres) ==
  LET d == AlignDim(b, total)
      t   == Snapped(b, d)
  IN  IF ~Contains(t, b) THEN Extend(t, d, xres, yres) ELSE t

-----------------------------------------------------------------------------
(* Options *)

Modes == {"NONE", "KML", "TMS", "UNIVIEW", "GMAP", "CELESTIA", "GIGAPAN"}

\* how --north/--south/--east/--west/--global were given
Overrides == {"none", "partial", "all", "global"}

\* mutant of ValidateError: the test on input_files.size() left out
ValidateErrorNoCount(h, n, sphereNoRadius, override, m, moduleSet, pn) ==
  IF h THEN "Usage"
  ELSE IF sphereNoRadius THEN "Sphere datum override requires a radius"
  ELSE IF override # "none" /\ n # 1
    THEN "Cannot override georeference information on multiple images"
  ELSE IF override = "partial"
    THEN "If you provide one, you must provide all of: --north --south --east --west"
  ELSE IF m = "NONE" /\ n # 1 THEN "Non-georeferenced images cannot be composed"
  ELSE IF m \in {"CELESTIA", "UNIVIEW"} /\ ~moduleSet
    THEN "Uniview and Celestia require --module-name"
  ELSE IF pn /\ n # 1 THEN "Non-georeferenced images cannot be composed"
  ELSE "none"

\* Options::validate: the message of the first failing VW_ASSERT, "none" if
\* all pass.  A failing VW_ASSERT throws vw::tools::Usage; the one on help
\* carries no message.
ValidateError(h, n, sphereNoRadius, override, m, moduleSet, pn) ==
  IF h THEN "Usage"
  ELSE IF ~(n > 0) THEN "Need at least one input image"
  ELSE IF sphereNoRadius THEN "Sphere datum override requires a radius"
  ELSE IF override # "none" /\ n # 1
    THEN "Cannot override georeference information on multiple images"
  ELSE IF override = "partial"
    THEN "If you provide one, you must provide all of: --north --south --east --west"
  ELSE IF m = "NONE" /\ n # 1 THEN "Non-georeferenced images cannot be composed"
  ELSE IF m \in {"CELESTIA", "UNIVIEW"} /\ ~moduleSet
    THEN "Uniview and Celestia require --module-name"
  ELSE IF pn /\ n # 1 THEN "Non-georeferenced images cannot be composed"
  ELSE "none"

-----------------------------------------------------------------------------
(* mosaic::QuadTreeGenerator and mosaic::QuadTreeConfig *)

\* no quadtree constructed yet
NoQuadTree == [tile_size |-> "none", file_type |-> "none",
               user_tile |-> FALSE, user_type |-> FALSE, calls |-> <<>>]

\* QuadTreeGenerator(image, name); ut, uy: opt.tile_size.set() and
\* opt.output_file_type.set() as this run reads them
NewQuadTree(ut, uy) == [tile_size |-> "generator default", file_type |-> "generator default",
                        user_tile |-> ut, user_type |-> uy, calls |-> <<>>]

\* quadtree.set_tile_size( opt.tile_size )
SetTileSize(q) ==
  [q EXCEPT !.tile_size = IF q.user_tile THEN "user" ELSE "option default",
            !.calls = Append(@, "set_tile_size")]

\* quadtree.set_file_type( opt.output_file_type )
SetFileType(q) ==
  [q EXCEPT !.file_type = IF q.user_type THEN "user" ELSE "option default",
            !.calls = Append(@, "set_file_type")]

\* config->configure( quadtree ): the config stamps its defaults
Configure(q) ==
  [q EXCEPT !.tile_size = "config", !.file_type = "config",
            !.calls = Append(@, "configure")]

\* quadtree.set_crop_bbox / quadtree.generate
Call(q, name) == [q EXCEPT !.calls = Append(@, name)]

\* do_normal_mosaic, lines 212-223: the calls made on the quadtree
NormalMosaicCalls(q, m) ==
  LET q1 == SetFileType(SetTileSize(q))
      q2 == IF m # "NONE" THEN Configure(q1) ELSE q1
  IN  Call(q2, "generate")

\* do_mosaic, lines 412-428: the calls made on the quadtree
MosaicCalls(q) ==
  LET q1 == Configure(q)
      q2 == IF q1.user_tile THEN SetTileSize(q1) ELSE q1
      q3 == IF q2.user_type THEN SetFileType(q2) ELSE q2
  IN  Call(Call(q3, "set_crop_bbox"), "generate")

-----------------------------------------------------------------------------
(* mosaic::ImageComposite *)

NoComposite == [empty |-> TRUE, bbox |-> EmptyBBox]

\* composite.insert( source, x, y ) with source cropped to the rectangle r
Insert(c, r) == [empty |-> FALSE, bbox |-> IF c.empty THEN r ELSE Grow(c.bbox, r)]

\* composite.bbox()
CompositeBBox(c) == c.bbox

RECURSIVE InsertAll(_, _)
InsertAll(c, rs) == IF rs = <<>> THEN c ELSE InsertAll(Insert(c, Head(rs)), Tail(rs))

\* the rectangle b moved left by dx
ShiftLeft(b, dx) == [b EXCEPT !.minx = b.minx - dx, !.maxx = b.maxx - dx]

\* mutant of Insertions: the second test made against total_resolution
InsertionsTotalBound(b, total, xres) ==
  (IF b.maxx > total THEN <<ShiftLeft(b, total)>> ELSE <<>>)
  \o (IF b.minx < total THEN <<b>> ELSE <<>>)

\* mutant of Insertions: the first test made on bbox.min().x
InsertionsMinWrap(b, total, xres) ==
  (IF b.minx > total THEN <<ShiftLeft(b, total)>> ELSE <<>>)
  \o (IF b.minx < xres THEN <<b>> ELSE <<>>)

\* lines 341-349: the insertions made for a source placed at b
Insertions(b, total, xres) ==
  (IF b.maxx > total THEN <<ShiftLeft(b, total)>> ELSE <<>>)
  \o (IF b.minx < xres THEN <<b>> ELSE <<>>)

\* mutant of NonEmpty: the test on the height left out
NonEmptyWidthOnly(b) == Width(b) > 0

\* line 358: VW_ASSERT(total_bbox.width() > 0 && total_bbox.height() > 0, ...)
NonEmpty(b) == Width(b) > 0 /\ Height(b) > 0

-----------------------------------------------------------------------------
(* Longitude/latitude *)

\* a double that is the exact quotient num/den, kept as the pair
Frac(num, den) == <<num, den>>

FracEq(f, n) == f[1] = n * f[2]

NoLL == [west |-> Frac(0, 1), south |-> Frac(0, 1), east |-> Frac(0, 1), north |-> Frac(0, 1)]

\* mutant of LonLatBBox: the latitude origin taken from min().y
LonLatBBoxMinY(t, xres, yres) ==
  [west  |-> Frac(360 * t.minx - 180 * xres, xres),
   south |-> Frac(180 * yres - 360 * t.miny, yres),
   east  |-> Frac(360 * t.minx - 180 * xres + 360 * Width(t), xres),
   north |-> Frac(180 * yres - 360 * t.miny + 360 * Height(t), yres)]

\* lines 388-391 and 405-408: BBox2 ll_bbox( x, y, width, height )
LonLatBBox(t, xres, yres) ==
  [west  |-> Frac(360 * t.minx - 180 * xres, xres),
   south |-> Frac(180 * yres - 360 * t.maxy, yres),
   east  |-> Frac(360 * t.minx - 180 * xres + 360 * Width(t), xres),
   north |-> Frac(180 * yres - 360 * t.maxy + 360 * Height(t), yres)]

\* geotx.forward_bbox for an unrotated longitude/latitude input covering
\* [west,east] x [south,north]: the inverse of the mapping above
ForwardBBox(west, south, east, north, xres, yres) ==
  [minx |-> ((west + 180) * xres) \div 360, miny |-> ((180 - north) * yres) \div 360,
   maxx |-> ((east + 180) * xres) \div 360, maxy |-> ((180 - south) * yres) \div 360]

\* the inputs of the scenario as <<west, south, east, north>>:
\* [-180,0]x[-90,90] and [0,180]x[-90,90]
ScenarioInputs == << <<-180, -90, 0, 90>>, <<0, -90, 180, 90>> >>

\* the placement bbox of the scenario's input number k (from 0)
ScenarioBBox(k, xres, yres) ==
  LET g == ScenarioInputs[k + 1]
  IN  ForwardBBox(g[1], g[2], g[3], g[4], xres, yres)

-----------------------------------------------------------------------------
(* The run *)

\* int total_resolution = 1024;
DefaultResolution == 1024

\* total_resolution as load_image_georeferences leaves it for the scenario:
\* the default, as the scenario's 1024-wide canvas presumes
ScenarioResolutions == {DefaultResolution}

\* total_resolution as load_image_georeferences leaves it, scaled down from
\* 1024 and more: a power of two for KML, whose resolution is a power of
\* two, and no smaller than the aspect ratio a, so that xresolution >= 1
Resolutions(m, a) == {r \in a..MaxRes : m = "KML" => IsPow2(r)}

\* the placement bboxes geotx.forward_bbox returns in Spec: positive width
\* and height, columns up to Margin outside [0,total], rows inside [0,total]
\* (the output georeference maps every latitude into the canvas rows)
PlacementBBoxes(total) ==
  {b \in [minx : (0 - Margin)..(total + Margin), miny : 0..total,
          maxx : (0 - Margin)..(total + Margin), maxy : 0..total] :
     b.minx < b.maxx /\ b.miny < b.maxy}

\* no image handled yet
NoImage == [x0 |-> 0, x1 |-> 0, at |-> <<>>]

Init ==
  /\ pc = "validate"
  /\ err = "none"
  /\ scenario \in BOOLEAN
  /\ help \in IF scenario THEN {FALSE} ELSE BOOLEAN
  /\ input_count \in IF scenario THEN {Len(ScenarioInputs)} ELSE 0..MaxImages
  /\ mode \in IF scenario THEN {"KML"} ELSE Modes
  /\ proj_none \in IF scenario THEN {FALSE} ELSE BOOLEAN
  /\ aspect_ratio \in IF scenario THEN {1} ELSE 1..MaxAspect
  /\ total_resolution = DefaultResolution
  /\ xresolution = 0
  /\ yresolution = 0
  /\ i = 0
  /\ composite = NoComposite
  /\ last = NoImage
  /\ steps = {}
  /\ bbox = EmptyBBox
  /\ dim = 0
  /\ total_bbox = EmptyBBox
  /\ realigned = EmptyBBox
  /\ ll_bbox = NoLL
  /\ quadtree = NoQuadTree

\* Options::validate, called on the parsed options before do_mosaic
Validate ==
  /\ pc = "validate"
  /\ \E sphereNoRadius \in BOOLEAN, override \in Overrides, moduleSet \in BOOLEAN :
       LET e == ValidateError(help, input_count, sphereNoRadius, override,
                              mode, moduleSet, proj_none)
       IN  /\ err' = e
           /\ pc' = IF e = "none" THEN "do_mosaic" ELSE "failed"
  /\ steps' = steps \cup {"validate"}
  /\ UNCHANGED <<help, input_count, mode, proj_none, aspect_ratio, scenario,
                 total_resolution, xresolution, yresolution, i, composite, last,
                 bbox, dim, total_bbox, dim, realigned, ll_bbox, quadtree>>

\* do_mosaic lines 243-246 and do_normal_mosaic
DoNormalMosaic ==
  /\ pc = "do_mosaic"
  /\ mode = "NONE" \/ proj_none
  /\ \E ut \in BOOLEAN, uy \in BOOLEAN :
       quadtree' = NormalMosaicCalls(NewQuadTree(ut, uy), mode)
  /\ steps' = steps \cup {"generate"}
  /\ pc' = "done"
  /\ UNCHANGED <<err, help, input_count, mode, proj_none, aspect_ratio, scenario,
                 total_resolution, xresolution, yresolution, i, composite, last,
                 bbox, dim, total_bbox, realigned, ll_bbox>>

\* do_mosaic lines 248-263
LoadGeoreferences ==
  /\ pc = "do_mosaic"
  /\ ~(mode = "NONE" \/ proj_none)
  /\ total_resolution' \in IF scenario THEN ScenarioResolutions ELSE Resolutions(mode, aspect_ratio)
  /\ xresolution' = CDiv(total_resolution', aspect_ratio)
  /\ yresolution' = total_resolution'
  /\ i' = 0
  /\ composite' = NoComposite
  /\ steps' = steps \cup {"load_georeferences"}
  /\ pc' = "loop"
  /\ UNCHANGED <<err, help, input_count, mode, proj_none, aspect_ratio, scenario,
                 last, bbox, dim, total_bbox, dim, realigned, ll_bbox, quadtree>>

\* do_mosaic lines 266-350: one iteration of the loop over the input files
LoopBody ==
  /\ pc = "loop"
  /\ i < input_count
  /\ \E b \in IF scenario THEN {ScenarioBBox(i, xresolution, yresolution)}
                          ELSE PlacementBBoxes(total_resolution) :
       LET ins == Insertions(b, total_resolution, xresolution)
       IN  /\ composite' = InsertAll(composite, ins)
           /\ last' = [x0 |-> b.minx, x1 |-> b.maxx,
                       at |-> [k \in 1..Len(ins) |-> ins[k].minx]]
           /\ steps' = steps \cup {"transform"} \cup (IF ins # <<>> THEN {"insert"} ELSE {})
  /\ i' = i + 1
  /\ UNCHANGED <<pc, err, help, input_count, mode, proj_none, aspect_ratio, scenario,
                 total_resolution, xresolution, yresolution,
                 bbox, dim, total_bbox, dim, realigned, ll_bbox, quadtree>>

\* do_mosaic lines 352-359: composite.bbox(), the crop and the VW_ASSERT
QueryBBox ==
  /\ pc = "loop"
  /\ ~(i < input_count)
  /\ total_bbox' = Crop(CompositeBBox(composite), BBox2i(0, 0, xresolution, yresolution))
  /\ steps' = steps \cup {"bbox"}
  /\ last' = NoImage
  /\ IF NonEmpty(total_bbox')
       THEN pc' = "align" /\ err' = err
       ELSE pc' = "failed" /\
            err' = "Total bbox is empty. Georeference calculation is probably incorrect."
  /\ UNCHANGED <<help, input_count, mode, proj_none, aspect_ratio, scenario,
                 total_resolution, xresolution, yresolution, i, composite,
                 bbox, dim, realigned, ll_bbox, quadtree>>

\* do_mosaic lines 361-373
Align ==
  /\ pc = "align"
  /\ IF mode = "KML"
       THEN /\ bbox' = total_bbox
            /\ dim' = AlignDim(total_bbox, total_resolution)
            /\ total_bbox' = KMLAlign(total_bbox, total_resolution, xresolution, yresolution)
            /\ steps' = steps \cup {"align"}
       ELSE UNCHANGED <<bbox, dim, total_bbox, steps>>
  /\ pc' = "prepare"
  /\ UNCHANGED <<err, help, input_count, mode, proj_none, aspect_ratio, scenario,
                 total_resolution, xresolution, yresolution, i, composite, last,
                 realigned, ll_bbox, quadtree>>

\* do_mosaic lines 375-380: composite.prepare( total_bbox ) and the VW_ASSERT
\* on composite.rows() and composite.cols()
Prepare ==
  /\ pc = "prepare"
  /\ steps' = steps \cup {"prepare"}
  /\ IF NonEmpty(total_bbox)
       THEN pc' = "quadtree" /\ err' = err
       ELSE pc' = "failed" /\
            err' = "Composite image is empty. Georeference calculation is probably incorrect."
  /\ UNCHANGED <<help, input_count, mode, proj_none, aspect_ratio, scenario,
                 total_resolution, xresolution, yresolution, i, composite, last,
                 bbox, dim, total_bbox, dim, realigned, ll_bbox, quadtree>>

\* do_mosaic lines 382-428
Generate ==
  /\ pc = "quadtree"
  /\ ll_bbox' = IF mode \in {"KML", "GIGAPAN"}
                  THEN LonLatBBox(total_bbox, xresolution, yresolution)
                  ELSE ll_bbox
  /\ \E ut \in BOOLEAN, uy \in BOOLEAN :
       quadtree' = MosaicCalls(NewQuadTree(ut, uy))
  /\ steps' = steps \cup {"data_bbox", "generate"}
  /\ pc' = "done"
  /\ UNCHANGED <<err, help, input_count, mode, proj_none, aspect_ratio, scenario,
                 total_resolution, xresolution, yresolution, i, composite, last,
                 bbox, dim, total_bbox, realigned>>

Next ==
  \/ Validate
  \/ DoNormalMosaic
  \/ LoadGeoreferences
  \/ LoopBody
  \/ QueryBBox
  \/ Align
  \/ Prepare
  \/ Generate

Spec == Init /\ [][Next]_vars

-----------------------------------------------------------------------------
(* The alignment block on its own *)

\* the coordinates of the placement bboxes of SpecAlign: up to AlignMargin
\* pixels outside [0,total] on every side
AlignCoords(total) == (0 - AlignMargin)..(total + AlignMargin)

\* a KML run as it leaves the loop of do_mosaic after one input
InitAlign ==
  /\ pc = "loop"
  /\ err = "none"
  /\ scenario = FALSE
  /\ help = FALSE
  /\ input_count = 1
  /\ mode = "KML"
  /\ proj_none = FALSE
  /\ aspect_ratio \in 1..AlignMaxAspect
  /\ total_resolution \in {Pow2(k) : k \in 0..AlignMaxExp}
  /\ aspect_ratio <= total_resolution
  /\ xresolution = CDiv(total_resolution, aspect_ratio)
  /\ yresolution = total_resolution
  /\ i = 1
  /\ \E x0 \in AlignCoords(total_resolution), y0 \in AlignCoords(total_resolution),
        x1 \in AlignCoords(total_resolution), y1 \in AlignCoords(total_resolution) :
       /\ x0 < x1
       /\ y0 < y1
       /\ composite = InsertAll(NoComposite,
                                Insertions([minx |-> x0, miny |-> y0, maxx |-> x1, maxy |-> y1],
                                           total_resolution, xresolution))
  /\ last = NoImage
  /\ steps = {"validate", "load_georeferences", "transform"}
  /\ bbox = EmptyBBox
  /\ dim = 0
  /\ total_bbox = EmptyBBox
  /\ realigned = EmptyBBox
  /\ ll_bbox = NoLL
  /\ quadtree = NoQuadTree

\* lines 361-373 run again, on the box they produced
Realign ==
  /\ pc = "prepare"
  /\ realigned' = KMLAlign(total_bbox, total_resolution, xresolution, yresolution)
  /\ pc' = "realigned"
  /\ UNCHANGED <<err, help, input_count, mode, proj_none, aspect_ratio, scenario,
                 total_resolution, xresolution, yresolution, i, composite, last,
                 steps, bbox, dim, total_bbox, ll_bbox, quadtree>>

NextAlign ==
  \/ QueryBBox
  \/ Align
  \/ Realign
  \/ Prepare
  \/ Generate

SpecAlign == InitAlign /\ [][NextAlign]_vars

-----------------------------------------------------------------------------
(* Properties *)

\* the canvas the union bbox is cropped to
Canvas == BBox2i(0, 0, xresolution, yresolution)

\* composite.bbox() cropped to the canvas, as line 356 leaves it
Cropped == Crop(CompositeBBox(composite), Canvas)

\* the steps of the reprojection
ReprojectionSteps == {"load_georeferences", "transform", "insert"}

\* the loop body has just handled an image
ImageHandled == pc = "loop" /\ i > 0

\* the smallest power of two >= m
RECURSIVE CeilPow2(_)
CeilPow2(m) == IF m <= 1 THEN 1 ELSE 2 * CeilPow2((m + 1) \div 2)

CexC2 == pc = "realigned" => realigned = total_bbox

\* C2 amended: the alignment block applied to the aligned box returns that
\* box exactly when the aligned box has side total_resolution and does not
\* start left of the canvas.
ThmC2 ==
  pc = "realigned" =>
    (realigned = total_bbox <=>
       (Width(total_bbox) = total_resolution /\ total_bbox.minx >= 0))

\* C2 witness: a bbox smaller than the canvas aligned to the full square,
\* which the second application leaves alone
WitC2 ==
  /\ pc = "realigned"
  /\ realigned = total_bbox
  /\ Width(bbox) < total_resolution
  /\ total_resolution = 8

\* C3 as claimed: an image whose placement bbox crosses the right canvas
\* edge is inserted exactly twice, one lying inside the canvas exactly once.
CexC3 ==
  ImageHandled =>
    /\ (last.x0 < total_resolution /\ last.x1 > total_resolution) => Len(last.at) = 2
    /\ (last.x0 >= 0 /\ last.x1 <= xresolution) => Len(last.at) = 1

\* C3 amended: two insertions (shifted left by total_resolution, then the
\* original position) when bbox.max().x > total_resolution and
\* bbox.min().x < xresolution; only the shifted one when
\* bbox.max().x > total_resolution and bbox.min().x >= xresolution; only the
\* original one when the bbox lies inside the canvas.
ThmC3 ==
  ImageHandled =>
    /\ (last.x1 > total_resolution /\ last.x0 < xresolution)
         => last.at = <<last.x0 - total_resolution, last.x0>>
    /\ (last.x1 > total_resolution /\ last.x0 >= xresolution)
         => last.at = <<last.x0 - total_resolution>>
    /\ (last.x0 >= 0 /\ last.x1 <= xresolution) => last.at = <<last.x0>>

\* C3 witness: with aspect_ratio 2, an image crossing the right edge that
\* starts inside the canvas, inserted twice
WitC3 ==
  /\ ImageHandled
  /\ aspect_ratio = 2
  /\ last.x0 >= 0
  /\ last.x0 < xresolution
  /\ last.x1 > total_resolution
  /\ Len(last.at) = 2

\* C4: the cropped union bbox has width <= 0 or height <= 0 exactly when the
\* run fails with the empty-bbox error, and then alignment, composite.prepare
\* and quadtree.generate are never executed.
ThmC4 ==
  "bbox" \in steps =>
    IF Width(Cropped) <= 0 \/ Height(Cropped) <= 0
      THEN /\ pc = "failed"
           /\ err = "Total bbox is empty. Georeference calculation is probably incorrect."
           /\ steps \cap {"align", "prepare", "generate"} = {}
      ELSE /\ err = "none"
           /\ pc # "failed"

\* C4 witness: an insertion was made, the crop left a positive width and no
\* height, and the run failed
WitC4 ==
  /\ pc = "failed"
  /\ ~composite.empty
  /\ Width(Cropped) > 0
  /\ Height(Cropped) <= 0

\* C5 as claimed: with no input file the run fails with "Need at least one
\* input image" before any reprojection step, whatever the other options.
CexC5 ==
  (input_count = 0 /\ pc # "validate") =>
    /\ pc = "failed"
    /\ err = "Need at least one input image"
    /\ steps \cap ReprojectionSteps = {}

\* C5 amended: with no input file the run fails in validate before any
\* reprojection step: with "Need at least one input image" unless help is
\* set, and with the message-less Usage error of the help test if it is.
ThmC5 ==
  (input_count = 0 /\ pc # "validate") =>
    /\ pc = "failed"
    /\ err = (IF help THEN "Usage" ELSE "Need at least one input image")
    /\ steps \cap ReprojectionSteps = {}

\* C5 witness: no input file, help not set, validate has failed
WitC5 ==
  /\ input_count = 0
  /\ ~help
  /\ mode = "KML"
  /\ pc = "failed"

\* the union bbox of the scenario covers every column of the canvas
ScenarioUnionFull ==
  /\ CompositeBBox(composite).minx = 0
  /\ CompositeBBox(composite).maxx = xresolution

\* C6 as claimed: the scenario's union bbox is 1024 wide, the aligned box
\* is 1024x1024 and the stamped bbox is [-180,180]x[-90,90].
CexC6 ==
  (scenario /\ pc = "done") =>
    /\ Width(CompositeBBox(composite)) = 1024
    /\ ScenarioUnionFull
    /\ total_bbox = BBox2i(0, 0, 1024, 1024)
    /\ FracEq(ll_bbox.west, -180) /\ FracEq(ll_bbox.east, 180)
    /\ FracEq(ll_bbox.south, -90) /\ FracEq(ll_bbox.north, 90)

\* C6 amended: the scenario's union bbox is total_resolution wide (1024
\* with the default resolution) and covers every column, the aligned box is
\* the whole total_resolution square and the stamped bbox is
\* [-180,180]x[-180,180].
ThmC6 ==
  (scenario /\ pc = "done") =>
    /\ Width(CompositeBBox(composite)) = total_resolution
    /\ ScenarioUnionFull
    /\ total_bbox = BBox2i(0, 0, total_resolution, total_resolution)
    /\ FracEq(ll_bbox.west, -180) /\ FracEq(ll_bbox.east, 180)
    /\ FracEq(ll_bbox.south, -180) /\ FracEq(ll_bbox.north, 180)

\* C6 witness: the scenario has run to the end at the default resolution
WitC6 ==
  /\ scenario
  /\ pc = "done"
  /\ total_resolution = DefaultResolution
  /\ Width(CompositeBBox(composite)) = 1024

\* C7 as claimed: dim is the smallest power of two >= max(width, height),
\* capped at total_resolution.
CexC7 ==
  "align" \in steps =>
    dim = Min(CeilPow2(Max(Width(bbox), Height(bbox))), total_resolution)

\* C8 as claimed: when the snapped square does not contain the cropped bbox,
\* an axis on which it does keeps its extent, and an extended axis grows
\* left/up unless that leaves the canvas, and right/down if it does.
CexC8 ==
  LET t == Snapped(bbox, dim)
      xin == bbox.minx >= t.minx /\ bbox.maxx <= t.maxx
      yin == bbox.miny >= t.miny /\ bbox.maxy <= t.maxy
  IN  ("align" \in steps /\ ~Contains(t, bbox)) =>
        /\ xin => (total_bbox.minx = t.minx /\ total_bbox.maxx = t.maxx)
        /\ yin => (total_bbox.miny = t.miny /\ total_bbox.maxy = t.maxy)
        /\ ~xin => IF t.minx - dim >= 0
                     THEN total_bbox.minx = t.minx - dim /\ total_bbox.maxx = t.maxx
                     ELSE total_bbox.minx = t.minx /\ total_bbox.maxx = t.maxx + dim
        /\ ~yin => IF t.miny - dim >= 0
                     THEN total_bbox.miny = t.miny - dim /\ total_bbox.maxy = t.maxy
                     ELSE total_bbox.miny = t.miny /\ total_bbox.maxy = t.maxy + dim

\* C8 amended: when the snapped square does not contain the cropped bbox it
\* is extended by dim on both axes; each axis grows right/down, unless the
\* snapped square's far edge is the canvas bound, and then it grows left/up.
\* When it contains the bbox it is kept.
ThmC8 ==
  LET t == Snapped(bbox, dim)
  IN  "align" \in steps =>
        IF Contains(t, bbox)
          THEN total_bbox = t
          ELSE /\ IF t.maxx = xresolution
                    THEN total_bbox.minx = t.minx - dim /\ total_bbox.maxx = t.maxx
                    ELSE total_bbox.minx = t.minx /\ total_bbox.maxx = t.maxx + dim
               /\ IF t.maxy = yresolution
                    THEN total_bbox.miny = t.miny - dim /\ total_bbox.maxy = t.maxy
                    ELSE total_bbox.miny = t.miny /\ total_bbox.maxy = t.maxy + dim

\* C8 witness: the snapped square misses the bbox on the y axis only, its
\* right edge is the canvas bound, so it grew left and down
WitC8 ==
  LET t == Snapped(bbox, dim)
  IN  /\ "align" \in steps
      /\ ~Contains(t, bbox)
      /\ bbox.minx >= t.minx /\ bbox.maxx <= t.maxx
      /\ t.maxx = xresolution
      /\ total_bbox.minx = t.minx - dim
      /\ total_bbox.maxy = t.maxy + dim

\* C9 as claimed: when a config is applied, the user's explicit tile size and
\* file type are in force when generate() is called, and no configure call
\* follows a set_tile_size or set_file_type call.
CexC9 ==
  (pc = "done" /\ mode # "NONE" /\ (quadtree.user_tile \/ quadtree.user_type)) =>
    /\ quadtree.user_tile => quadtree.tile_size = "user"
    /\ quadtree.user_type => quadtree.file_type = "user"
    /\ \A j \in 1..Len(quadtree.calls), k \in 1..Len(quadtree.calls) :
         (j < k /\ quadtree.calls[j] \in {"set_tile_size", "set_file_type"})
           => quadtree.calls[k] # "configure"

====
